---- MODULE Spec2Model ----
(***************************************************************************)
(* CNBCAggregator (cnbc_aggregator.py): three source adapters that append  *)
(* records to one data_store, run in sequence by run(), followed by the    *)
(* CSV export decision.                                                    *)
(*                                                                         *)
(* Python strings on which the code computes (strip, startswith, lower,   *)
(* substring test, slicing, concatenation) are sequences of one-character  *)
(* strings.  Values the code only passes through (timestamps, log tags)    *)
(* are plain strings.  A feed entry or an element's attribute map is a     *)
(* record whose DOMAIN holds exactly the fields that are present.          *)
(***************************************************************************)
EXTENDS Integers, Sequences, FiniteSets, TLC

VARIABLES
    pc,          \* position of the control flow inside run()
    data_store,  \* self.data_store
    site,        \* what requests.get(url) will answer
    channel,     \* what feedparser.parse(youtube rss) will answer
    podcast,     \* what feedparser.parse(podcast rss) will answer
    articles,    \* fetch_web_news: articles[:15]
    entries,     \* the adapter's feed.entries[:5] / feed.entries[:3]
    idx,         \* index of the loop's current element
    count,       \* fetch_web_news: count
    logs,        \* messages passed to self.log / print, in order
    fetched,     \* calls made to YouTubeTranscriptApi.get_transcript, in order
    slept,       \* feed positions after which the polite delay was taken
    lastDelay,   \* duration of the latest polite delay
    invoked,     \* adapters invoked so far by the current run()
    base,        \* Len(data_store) when the current adapter was invoked
    runBase,     \* Len(data_store) when the current run() was called
    runs,        \* number of run() calls made on the instance
    exported,    \* datasets handed to df.to_csv, in order
    warned       \* number of "No data collected" warnings printed

vars == <<pc, data_store, site, channel, podcast, articles, entries, idx, count,
          logs, fetched, slept, lastDelay, invoked, base, runBase, runs,
          exported, warned>>

-----------------------------------------------------------------------------
(* Bounds of the model *)

MaxArticles == 20
MaxEntries == 6
MaxEpisodes == 4
MaxRuns == 2

-----------------------------------------------------------------------------
(* Program constants *)

WebCap == 15
VideoCap == 5
PodcastCap == 3
SnippetLen == 500
SummaryLen == 400
DelayMin == 1
DelayMax == 3
StatusOK == 200

Origin == <<"h", "t", "t", "p", "s", ":", "/", "/", "w", "w", "w", ".", "c", "n", "b", "c", ".", "c", "o", "m">>
HttpPrefix == <<"h", "t", "t", "p">>
Ellipsis == <<".", ".", ".">>
Placeholder == <<"N", "/", "A", " ", "(", "C", "l", "i", "c", "k", " ", "l", "i", "n", "k", " ", "f", "o", "r", " ", "f", "u", "l", "l", " ", "t", "e", "x", "t", ")">>
keywords == << <<"c", "r", "a", "m", "e", "r">>, <<"m", "o", "r", "n", "i", "n", "g">>, <<"c", "l", "u", "b">>, <<"i", "n", "v", "e", "s", "t", "i", "n", "g">>, <<"s", "t", "o", "c", "k">> >>
Today == "today"
None == <<"None">>

-----------------------------------------------------------------------------
(* String operations *)

Whitespace == {" ", "\t", "\n"}

RECURSIVE LStrip(_)
LStrip(s) == IF s # <<>> /\ Head(s) \in Whitespace THEN LStrip(Tail(s)) ELSE s

RECURSIVE RStrip(_)
RStrip(s) ==
    IF s # <<>> /\ s[Len(s)] \in Whitespace
    THEN RStrip(SubSeq(s, 1, Len(s) - 1))
    ELSE s

Strip(s) == RStrip(LStrip(s))

StartsWith(s, p) == Len(s) >= Len(p) /\ SubSeq(s, 1, Len(p)) = p

Contains(k, s) == \E i \in 1..(Len(s) - Len(k) + 1) : SubSeq(s, i, i + Len(k) - 1) = k

UpperCase == <<"A", "B", "C", "D", "E", "F", "G", "H", "I", "J", "K", "L", "M", "N", "O", "P", "Q", "R", "S", "T", "U", "V", "W", "X", "Y", "Z">>
LowerCase == <<"a", "b", "c", "d", "e", "f", "g", "h", "i", "j", "k", "l", "m", "n", "o", "p", "q", "r", "s", "t", "u", "v", "w", "x", "y", "z">>

LowerChar(c) ==
    IF \E i \in 1..Len(UpperCase) : UpperCase[i] = c
    THEN LowerCase[CHOOSE i \in 1..Len(UpperCase) : UpperCase[i] = c]
    ELSE c

Lower(s) == [i \in 1..Len(s) |-> LowerChar(s[i])]

Take(s, n) == SubSeq(s, 1, IF Len(s) < n THEN Len(s) ELSE n)

RECURSIVE Join(_)
Join(parts) ==
    IF parts = <<>> THEN <<>>
    ELSE IF Len(parts) = 1 THEN parts[1]
    ELSE parts[1] \o <<" ">> \o Join(Tail(parts))

RECURSIVE GetText(_, _)
GetText(s, inTag) ==
    IF s = <<>> THEN <<>>
    ELSE IF inTag THEN GetText(Tail(s), Head(s) # ">")
    ELSE IF Head(s) = "<" THEN GetText(Tail(s), TRUE)
    ELSE <<Head(s)>> \o GetText(Tail(s), FALSE)

Digits == <<"0", "1", "2", "3", "4", "5", "6", "7", "8", "9">>

RECURSIVE Dec(_)
Dec(n) == IF n < 10 THEN <<Digits[n + 1]>> ELSE Dec(n \div 10) \o <<Digits[(n % 10) + 1]>>

Has(e, f) == f \in DOMAIN e

-----------------------------------------------------------------------------
(* Inputs: what the collaborators answer.  An element matched by           *)
(* soup.select('.Card-title') has a text, an attribute map, and may make   *)
(* its extraction raise.                                                   *)

Article(text, attrs) == [text |-> text, attrs |-> attrs, raises |-> FALSE]

WellFormed(i) == Article(<<"N", "e", "w", "s", " ">> \o Dec(i), [href |-> <<"/", "n", "e", "w", "s", "/">> \o Dec(i)])

OddArticles ==
    { Article(<<>>, [href |-> <<"/", "v", "i", "d", "e", "o", "/", "1">>]),
      Article(<<" ", " ">>, [href |-> <<"/", "v", "i", "d", "e", "o", "/", "2">>]),
      Article(<<" ", "F", "e", "d", " ", "h", "o", "l", "d", "s", " ">>, [href |-> <<"h", "t", "t", "p", "s", ":", "/", "/", "w", "w", "w", ".", "c", "n", "b", "c", ".", "c", "o", "m", "/", "f", "e", "d">>]),
      Article(<<"N", "o", " ", "l", "i", "n", "k">>, [class |-> <<"C", "a", "r", "d", "-", "t", "i", "t", "l", "e">>]),
      Article(<<"E", "m", "p", "t", "y", " ", "l", "i", "n", "k">>, [href |-> <<>>]),
      Article(<<"P", "a", "r", "t", "n", "e", "r">>, [href |-> <<"h", "t", "t", "p", ":", "/", "/", "p", "a", "r", "t", "n", "e", "r", ".", "e", "x", "a", "m", "p", "l", "e", "/", "x">>]),
      Article(<<"D", "o", "c", "s">>, [href |-> <<"h", "t", "t", "p", "d", "o", "c", "s", "/", "p", "a", "g", "e", ".", "h", "t", "m", "l">>]),
      Article(<<"B", "a", "r", "e">>, [href |-> <<"p", "a", "g", "e", ".", "h", "t", "m", "l">>]),
      [text |-> <<"B", "r", "o", "k", "e", "n">>, attrs |-> [href |-> <<"/", "b", "r", "o", "k", "e", "n">>], raises |-> TRUE] }

Page(n, k, a) == [i \in 1..n |-> IF i = k THEN a ELSE WellFormed(i)]

PlainPages == { Page(n, 0, WellFormed(0)) : n \in 0..MaxArticles }

OddPages ==
    { Page(nk[1], nk[2], a) :
        nk \in {<<1, 1>>, <<MaxArticles, 1>>, <<MaxArticles, MaxArticles>>},
        a \in OddArticles }

Response(status, page) == [kind |-> "response", status_code |-> status, page |-> page]
TransportError == [kind |-> "exception"]

RichSites ==
    {TransportError, Response(503, Page(2, 0, WellFormed(0)))}
        \cup { Response(StatusOK, p) : p \in PlainPages \cup OddPages }

SmallSites ==
    {TransportError, Response(503, Page(2, 0, WellFormed(0))),
     Response(StatusOK, <<>>), Response(StatusOK, Page(2, 0, WellFormed(0)))}

(* Entries of the YouTube channel feed. *)

Published == "2024-05-01T10:00:00+00:00"

Video(i, title) ==
    [yt_videoid |-> <<"v", "i", "d">> \o Dec(i), title |-> title,
     published |-> Published, link |-> <<"h", "t", "t", "p", "s", ":", "/", "/", "w", "w", "w", ".", "y", "o", "u", "t", "u", "b", "e", ".", "c", "o", "m", "/", "w", "a", "t", "c", "h", "?", "v", "=", "v", "i", "d">> \o Dec(i)]

Matching(i) == Video(i, <<"S", "t", "o", "c", "k", " ", "p", "i", "c", "k", "s", " ">> \o Dec(i))

Drop(e, f) == [g \in DOMAIN e \ {f} |-> e[g]]

OddVideos(i) ==
    { Video(i, <<"D", "a", "i", "l", "y", " ", "r", "e", "c", "a", "p">>),
      Video(i, <<"M", "O", "R", "N", "I", "N", "G", " ", "B", "e", "l", "l">>),
      Drop(Matching(i), "yt_videoid"),
      Drop(Matching(i), "title"),
      Drop(Matching(i), "published") }

ScenarioTitles ==
    << <<"M", "a", "r", "k", "e", "t", " ", "O", "p", "e", "n">>, <<"C", "r", "a", "m", "e", "r", "'", "s", " ", "P", "i", "c", "k", "s">>, <<"W", "e", "a", "t", "h", "e", "r">>, <<"C", "l", "u", "b", " ", "U", "p", "d", "a", "t", "e">>, <<"R", "a", "n", "d", "o", "m">> >>

ScenarioFeed == [i \in 1..Len(ScenarioTitles) |-> Video(i, ScenarioTitles[i])]

VideoFeed(n, k, e) == [i \in 1..n |-> IF i = k THEN e ELSE Matching(i)]

PlainChannels == { VideoFeed(n, 0, Matching(0)) : n \in 0..MaxEntries }

OddChannels ==
    UNION { UNION { { VideoFeed(n, k, e) : e \in OddVideos(k) } : k \in 1..n } :
              n \in 1..MaxEntries }

Feed(es) == [kind |-> "feed", entries |-> es]
ParseError == [kind |-> "exception"]

RichChannels ==
    {ParseError, Feed(ScenarioFeed)} \cup { Feed(f) : f \in PlainChannels \cup OddChannels }

SmallChannels ==
    {ParseError, Feed(<<>>), Feed(ScenarioFeed), Feed(VideoFeed(2, 0, Matching(0))),
     Feed(VideoFeed(2, 1, Drop(Matching(1), "yt_videoid")))}

(* the transcript the caption provider holds for a video *)
TranscriptOf(video_id) == << [text |-> <<"t", "o", "d", "a", "y", " ", "o", "n">>], [text |-> video_id] >>

(* Entries of the podcast feed. *)

Episode(i) ==
    [title |-> <<"S", "q", "u", "a", "w", "k", " ">> \o Dec(i),
     description |-> <<"<", "p", ">", "B", "u", "y", " ", "<", "b", ">", "A", "A", "P", "L", "<", "/", "b", ">", " ">> \o Dec(i) \o <<"<", "/", "p", ">">>,
     published |-> Published,
     link |-> <<"h", "t", "t", "p", "s", ":", "/", "/", "p", "o", "d", "c", "a", "s", "t", ".", "e", "x", "a", "m", "p", "l", "e", "/", "e", "p">> \o Dec(i)]

OddEpisodes(i) ==
    { Drop(Episode(i), "published"),
      Drop(Episode(i), "description"),
      Drop(Episode(i), "title"),
      [Episode(i) EXCEPT !.title = <<>>] }

EpisodeFeed(n, k, e) == [i \in 1..n |-> IF i = k THEN e ELSE Episode(i)]

PlainPodcasts == { EpisodeFeed(n, 0, Episode(0)) : n \in 0..MaxEpisodes }

OddPodcasts ==
    UNION { UNION { { EpisodeFeed(n, k, e) : e \in OddEpisodes(k) } : k \in 1..n } :
              n \in 1..MaxEpisodes }

RichPodcasts ==
    {ParseError} \cup { Feed(f) : f \in PlainPodcasts \cup OddPodcasts }

SmallPodcasts ==
    {ParseError, Feed(<<>>), Feed(EpisodeFeed(2, 0, Episode(0))),
     Feed(EpisodeFeed(2, 2, Drop(Episode(2), "description")))}

(* The combinations explored: every small combination, and each source    *)
(* varied widely against a fixed choice of the other two.                 *)
Inputs ==
    (SmallSites \X SmallChannels \X SmallPodcasts)
        \cup (RichSites \X {Feed(VideoFeed(1, 0, Matching(0)))} \X {Feed(EpisodeFeed(1, 0, Episode(0)))})
        \cup ({Response(StatusOK, Page(1, 0, WellFormed(0)))} \X RichChannels \X {Feed(EpisodeFeed(1, 0, Episode(0)))})
        \cup ({Response(StatusOK, Page(1, 0, WellFormed(0)))} \X {Feed(VideoFeed(1, 0, Matching(0)))} \X RichPodcasts)

-----------------------------------------------------------------------------
(* The records the adapters build *)

Attr(article, name) == IF Has(article.attrs, name) THEN article.attrs[name] ELSE None

Truthy(link) == link # None /\ link # <<>>

NormalizeLink(link) ==
    IF Truthy(link) /\ ~StartsWith(link, HttpPrefix) THEN Origin \o link ELSE link

WebRecord(article) ==
    [Source_Type |-> "Web News",
     Timestamp   |-> Today,
     Headline    |-> Strip(article.text),
     Snippet     |-> Placeholder,
     Link        |-> NormalizeLink(Attr(article, "href"))]

(* variant: the title is not lower-cased before the keyword test *)
Relevant_CaseSensitive(title) == \E i \in 1..Len(keywords) : Contains(keywords[i], title)

Relevant(title) == \E i \in 1..Len(keywords) : Contains(keywords[i], Lower(title))

VideoSnippet(transcript_list) ==
    Take(Join([i \in 1..Len(transcript_list) |-> transcript_list[i].text]), SnippetLen)
        \o Ellipsis

VideoRecord(entry, transcript_list) ==
    [Source_Type |-> "YouTube Video",
     Timestamp   |-> entry.published,
     Headline    |-> entry.title,
     Snippet     |-> VideoSnippet(transcript_list),
     Link        |-> entry.link]

PodcastRecord(entry) ==
    [Source_Type |-> "Podcast RSS",
     Timestamp   |-> IF Has(entry, "published") THEN entry.published ELSE Today,
     Headline    |-> entry.title,
     Snippet     |-> Take(GetText(entry.description, FALSE), SummaryLen) \o Ellipsis,
     Link        |-> entry.link]

Min(a, b) == IF a < b THEN a ELSE b

Log(message) == logs' = Append(logs, message)

Enter(adapter) ==
    /\ invoked' = Append(invoked, adapter)
    /\ base' = Len(data_store)

-----------------------------------------------------------------------------
(* State after CNBCAggregator() *)

Init ==
    /\ pc = "idle"
    /\ data_store = <<>>
    /\ \E t \in Inputs : site = t[1] /\ channel = t[2] /\ podcast = t[3]
    /\ articles = <<>>
    /\ entries = <<>>
    /\ idx = 0
    /\ count = 0
    /\ logs = <<>>
    /\ fetched = <<>>
    /\ slept = <<>>
    /\ lastDelay = 0
    /\ invoked = <<>>
    /\ base = 0
    /\ runBase = 0
    /\ runs = 0
    /\ exported = <<>>
    /\ warned = 0

inputs == <<site, channel, podcast>>

(* run() is called: it goes straight to fetch_web_news and never resets    *)
(* data_store.                                                             *)
Call ==
    /\ pc' = "web_get"
    /\ runs' = runs + 1
    /\ runBase' = Len(data_store)
    /\ invoked' = <<>>
    /\ UNCHANGED <<data_store, inputs, articles, entries, idx, count, logs, fetched,
                   slept, lastDelay, base, exported, warned>>

Run ==
    /\ pc = "idle"
    /\ Call

RunAgain ==
    /\ pc \in {"done", "raised"}
    /\ runs < MaxRuns
    /\ Call

-----------------------------------------------------------------------------
(* fetch_web_news *)

WebTransportError ==
    /\ pc = "web_get"
    /\ site.kind = "exception"
    /\ Enter("web")
    /\ Log("Error in Web Scraper")
    /\ pc' = "sleep1"
    /\ UNCHANGED <<data_store, inputs, articles, entries, idx, count, fetched, slept,
                   lastDelay, runBase, runs, exported, warned>>

WebBadStatus ==
    /\ pc = "web_get"
    /\ site.kind = "response"
    /\ site.status_code # StatusOK
    /\ Enter("web")
    /\ Log("Failed to fetch website")
    /\ pc' = "sleep1"
    /\ UNCHANGED <<data_store, inputs, articles, entries, idx, count, fetched, slept,
                   lastDelay, runBase, runs, exported, warned>>

(* variant: the [:15] slice is missing *)
WebSelect_Uncapped ==
    /\ pc = "web_get"
    /\ site.kind = "response"
    /\ site.status_code = StatusOK
    /\ Enter("web")
    /\ articles' = site.page
    /\ idx' = 1
    /\ count' = 0
    /\ pc' = "web_loop"
    /\ UNCHANGED <<data_store, inputs, entries, logs, fetched, slept, lastDelay,
                   runBase, runs, exported, warned>>

WebSelect ==
    /\ pc = "web_get"
    /\ site.kind = "response"
    /\ site.status_code = StatusOK
    /\ Enter("web")
    /\ articles' = Take(site.page, WebCap)
    /\ idx' = 1
    /\ count' = 0
    /\ pc' = "web_loop"
    /\ UNCHANGED <<data_store, inputs, entries, logs, fetched, slept, lastDelay,
                   runBase, runs, exported, warned>>

WebArticle ==
    /\ pc = "web_loop"
    /\ idx <= Len(articles)
    /\ ~articles[idx].raises
    /\ data_store' = Append(data_store, WebRecord(articles[idx]))
    /\ count' = count + 1
    /\ idx' = idx + 1
    /\ UNCHANGED <<pc, inputs, articles, entries, logs, fetched, slept, lastDelay,
                   invoked, base, runBase, runs, exported, warned>>

WebArticleError ==
    /\ pc = "web_loop"
    /\ idx <= Len(articles)
    /\ articles[idx].raises
    /\ idx' = idx + 1
    /\ UNCHANGED <<pc, data_store, inputs, articles, entries, count, logs, fetched,
                   slept, lastDelay, invoked, base, runBase, runs, exported, warned>>

WebDone ==
    /\ pc = "web_loop"
    /\ idx > Len(articles)
    /\ Log("Successfully scraped web articles")
    /\ pc' = "sleep1"
    /\ UNCHANGED <<data_store, inputs, articles, entries, idx, count, fetched, slept,
                   lastDelay, invoked, base, runBase, runs, exported, warned>>

Sleep1 ==
    /\ pc = "sleep1"
    /\ pc' = "yt_parse"
    /\ UNCHANGED <<data_store, inputs, articles, entries, idx, count, logs, fetched,
                   slept, lastDelay, invoked, base, runBase, runs, exported, warned>>

-----------------------------------------------------------------------------
(* fetch_youtube_intelligence.  feedparser.parse and the reads of          *)
(* entry.yt_videoid and entry.title stand outside every try block: an      *)
(* exception there leaves the adapter and run().                           *)

YtParseError ==
    /\ pc = "yt_parse"
    /\ channel.kind = "exception"
    /\ Enter("youtube")
    /\ pc' = "raised"
    /\ UNCHANGED <<data_store, inputs, articles, entries, idx, count, logs, fetched,
                   slept, lastDelay, runBase, runs, exported, warned>>

YtParse ==
    /\ pc = "yt_parse"
    /\ channel.kind = "feed"
    /\ Enter("youtube")
    /\ entries' = Take(channel.entries, VideoCap)
    /\ idx' = 1
    /\ pc' = "yt_loop"
    /\ UNCHANGED <<data_store, inputs, articles, count, logs, fetched, slept,
                   lastDelay, runBase, runs, exported, warned>>

Scanning == pc = "yt_loop" /\ idx <= Len(entries)

Readable(entry) == Has(entry, "yt_videoid") /\ Has(entry, "title")

Eligible(entry) == Readable(entry) /\ Relevant(entry.title)

Complete(entry) == Has(entry, "published") /\ Has(entry, "link")

YtEntryError ==
    /\ Scanning
    /\ ~Readable(entries[idx])
    /\ pc' = "raised"
    /\ UNCHANGED <<data_store, inputs, articles, entries, idx, count, logs, fetched,
                   slept, lastDelay, invoked, base, runBase, runs, exported, warned>>

YtSkip ==
    /\ Scanning
    /\ Readable(entries[idx])
    /\ ~Relevant(entries[idx].title)
    /\ idx' = idx + 1
    /\ UNCHANGED <<pc, data_store, inputs, articles, entries, count, logs, fetched,
                   slept, lastDelay, invoked, base, runBase, runs, exported, warned>>

Attempt(entry, ok) == Append(fetched, [video_id |-> entry.yt_videoid, pos |-> idx, ok |-> ok])

YtTranscript ==
    /\ Scanning
    /\ Eligible(entries[idx])
    /\ Complete(entries[idx])
    /\ fetched' = Attempt(entries[idx], TRUE)
    /\ data_store' = Append(data_store,
                            VideoRecord(entries[idx], TranscriptOf(entries[idx].yt_videoid)))
    /\ Log("Retrieved transcript")
    /\ pc' = "yt_sleep"
    /\ UNCHANGED <<inputs, articles, entries, idx, count, slept, lastDelay, invoked,
                   base, runBase, runs, exported, warned>>

YtRecordError ==
    /\ Scanning
    /\ Eligible(entries[idx])
    /\ ~Complete(entries[idx])
    /\ fetched' = Attempt(entries[idx], TRUE)
    /\ Log("No transcript available")
    /\ idx' = idx + 1
    /\ UNCHANGED <<pc, data_store, inputs, articles, entries, count, slept, lastDelay,
                   invoked, base, runBase, runs, exported, warned>>

YtNoTranscript ==
    /\ Scanning
    /\ Eligible(entries[idx])
    /\ fetched' = Attempt(entries[idx], FALSE)
    /\ Log("No transcript available")
    /\ idx' = idx + 1
    /\ UNCHANGED <<pc, data_store, inputs, articles, entries, count, slept, lastDelay,
                   invoked, base, runBase, runs, exported, warned>>

YtSleep ==
    /\ pc = "yt_sleep"
    /\ \E d \in DelayMin..DelayMax : lastDelay' = d
    /\ slept' = Append(slept, idx)
    /\ idx' = idx + 1
    /\ pc' = "yt_loop"
    /\ UNCHANGED <<data_store, inputs, articles, entries, count, logs, fetched,
                   invoked, base, runBase, runs, exported, warned>>

YtDone ==
    /\ pc = "yt_loop"
    /\ idx > Len(entries)
    /\ pc' = "sleep2"
    /\ UNCHANGED <<data_store, inputs, articles, entries, idx, count, logs, fetched,
                   slept, lastDelay, invoked, base, runBase, runs, exported, warned>>

Sleep2 ==
    /\ pc = "sleep2"
    /\ pc' = "pod_parse"
    /\ UNCHANGED <<data_store, inputs, articles, entries, idx, count, logs, fetched,
                   slept, lastDelay, invoked, base, runBase, runs, exported, warned>>

-----------------------------------------------------------------------------
(* fetch_podcast_intelligence: one try block around the parse and the loop *)

PodParseError ==
    /\ pc = "pod_parse"
    /\ podcast.kind = "exception"
    /\ Enter("podcast")
    /\ Log("Error in Podcast module")
    /\ pc' = "export"
    /\ UNCHANGED <<data_store, inputs, articles, entries, idx, count, fetched, slept,
                   lastDelay, runBase, runs, exported, warned>>

PodParse ==
    /\ pc = "pod_parse"
    /\ podcast.kind = "feed"
    /\ Enter("podcast")
    /\ entries' = Take(podcast.entries, PodcastCap)
    /\ idx' = 1
    /\ pc' = "pod_loop"
    /\ UNCHANGED <<data_store, inputs, articles, count, logs, fetched, slept,
                   lastDelay, runBase, runs, exported, warned>>

Parsable(entry) == Has(entry, "description") /\ Has(entry, "title") /\ Has(entry, "link")

(* variant: the record is inserted at the front instead of appended *)
PodEntry_Prepends ==
    /\ pc = "pod_loop"
    /\ idx <= Len(entries)
    /\ Parsable(entries[idx])
    /\ data_store' = <<PodcastRecord(entries[idx])>> \o data_store
    /\ idx' = idx + 1
    /\ UNCHANGED <<pc, inputs, articles, entries, count, logs, fetched, slept,
                   lastDelay, invoked, base, runBase, runs, exported, warned>>

PodEntry ==
    /\ pc = "pod_loop"
    /\ idx <= Len(entries)
    /\ Parsable(entries[idx])
    /\ data_store' = Append(data_store, PodcastRecord(entries[idx]))
    /\ idx' = idx + 1
    /\ UNCHANGED <<pc, inputs, articles, entries, count, logs, fetched, slept,
                   lastDelay, invoked, base, runBase, runs, exported, warned>>

PodEntryError ==
    /\ pc = "pod_loop"
    /\ idx <= Len(entries)
    /\ ~Parsable(entries[idx])
    /\ Log("Error in Podcast module")
    /\ pc' = "export"
    /\ UNCHANGED <<data_store, inputs, articles, entries, idx, count, fetched, slept,
                   lastDelay, invoked, base, runBase, runs, exported, warned>>

PodDone ==
    /\ pc = "pod_loop"
    /\ idx > Len(entries)
    /\ Log("Parsed podcast episodes")
    /\ pc' = "export"
    /\ UNCHANGED <<data_store, inputs, articles, entries, idx, count, fetched, slept,
                   lastDelay, invoked, base, runBase, runs, exported, warned>>

-----------------------------------------------------------------------------
(* run(): the export decision *)

Export ==
    /\ pc = "export"
    /\ data_store # <<>>
    /\ exported' = Append(exported, data_store)
    /\ Log("SUCCESS: Data saved")
    /\ pc' = "done"
    /\ UNCHANGED <<data_store, inputs, articles, entries, idx, count, fetched, slept,
                   lastDelay, invoked, base, runBase, runs, warned>>

Warn ==
    /\ pc = "export"
    /\ data_store = <<>>
    /\ warned' = warned + 1
    /\ Log("WARNING: No data collected from any source.")
    /\ pc' = "done"
    /\ UNCHANGED <<data_store, inputs, articles, entries, idx, count, fetched, slept,
                   lastDelay, invoked, base, runBase, runs, exported>>

-----------------------------------------------------------------------------

Next ==
    \/ Run
    \/ WebTransportError \/ WebBadStatus \/ WebSelect
    \/ WebArticle \/ WebArticleError \/ WebDone
    \/ Sleep1
    \/ YtParseError \/ YtParse \/ YtEntryError \/ YtSkip
    \/ YtTranscript \/ YtRecordError \/ YtNoTranscript \/ YtSleep \/ YtDone
    \/ Sleep2
    \/ PodParseError \/ PodParse \/ PodEntry \/ PodEntryError \/ PodDone
    \/ Export \/ Warn

(* one CNBCAggregator(), one run(): the program's __main__ *)
Spec == Init /\ [][Next]_vars

(* the same instance is asked to run() again *)
NextReuse == Next \/ RunAgain

SpecReuse == Init /\ [][NextReuse]_vars

-----------------------------------------------------------------------------
(* Properties *)

Records == 1..Len(data_store)

OfType(type) == { i \in Records : data_store[i].Source_Type = type }

Last(s) == s[Len(s)]

Added == Len(data_store) - base

YoutubeOver == pc \in {"sleep2", "pod_parse", "pod_loop", "export", "done", "raised"}

RunOver == pc \in {"done", "raised"}

(* C1: no failure inside an adapter leaves the adapter: run() never aborts, *)
(* and when it reaches the export decision all three adapters have been    *)
(* invoked in order and the dataset still holds what each one appended.    *)
C1_FailuresContained ==
    /\ pc # "raised"
    /\ pc \in {"export", "done"} => invoked = <<"web", "youtube", "podcast">>

(* What does hold for C1: no step removes or reorders a record, and the    *)
(* web and podcast adapters always hand control on.                        *)
C1_AppendOnly ==
    [][Len(data_store') >= Len(data_store)
         /\ SubSeq(data_store', 1, Len(data_store)) = data_store]_vars

C1_OnlyYoutubeRaises == pc = "raised" => Last(invoked) = "youtube"

(* C2: in the dataset of a run, Web News records come before YouTube Video *)
(* records, which come before Podcast RSS records.                         *)
Rank(record) ==
    CASE record.Source_Type = "Web News" -> 1
      [] record.Source_Type = "YouTube Video" -> 2
      [] record.Source_Type = "Podcast RSS" -> 3

C2_SourceOrder ==
    \A i, j \in Records : i < j => Rank(data_store[i]) <= Rank(data_store[j])

C2_Witness ==
    /\ pc = "done"
    /\ exported = <<data_store>>
    /\ OfType("Web News") # {}
    /\ OfType("YouTube Video") # {}
    /\ OfType("Podcast RSS") # {}
    /\ \E a \in 1..Len(fetched) : ~fetched[a].ok

(* C3: every record in the dataset has a non-empty headline.               *)
C3_HeadlineNonEmpty == \A i \in Records : data_store[i].Headline # <<>>

(* C4: a transcript fetch is attempted, and a YouTube record appended, only *)
(* for feed entries whose lower-cased title contains one of cramer,        *)
(* morning, club, investing, stock; for the five-title scenario feed       *)
(* exactly entries 2 and 4 are fetched.                                    *)
FilterWords == { <<"c", "r", "a", "m", "e", "r">>, <<"m", "o", "r", "n", "i", "n", "g">>, <<"c", "l", "u", "b">>, <<"i", "n", "v", "e", "s", "t", "i", "n", "g">>, <<"s", "t", "o", "c", "k">> }

HasFilterWord(title) == \E k \in FilterWords : Contains(k, Lower(title))

C4_KeywordFilter ==
    /\ \A a \in 1..Len(fetched) :
          /\ channel.kind = "feed"
          /\ fetched[a].pos <= Len(channel.entries)
          /\ channel.entries[fetched[a].pos].yt_videoid = fetched[a].video_id
          /\ HasFilterWord(channel.entries[fetched[a].pos].title)
    /\ \A i \in OfType("YouTube Video") : HasFilterWord(data_store[i].Headline)
    /\ (channel = Feed(ScenarioFeed) /\ YoutubeOver)
          => [a \in 1..Len(fetched) |-> fetched[a].pos] = <<2, 4>>

C4_Witness ==
    /\ channel = Feed(ScenarioFeed)
    /\ pc = "done"
    /\ Len(fetched) = 2
    /\ fetched[1].ok /\ ~fetched[2].ok
    /\ Cardinality(OfType("YouTube Video")) = 1

(* C5: one invocation of an adapter appends at most 15 (web), 5 (youtube,  *)
(* which scans at most the first 5 entries) or 3 (podcast) records; a page *)
(* of 20 well-formed candidates yields exactly 15 Web News records.        *)
TwentyCandidates == Response(StatusOK, Page(20, 0, WellFormed(0)))

C5_AdapterCaps ==
    /\ invoked # <<>> =>
          /\ Last(invoked) = "web" => Added <= 15
          /\ Last(invoked) = "youtube" =>
                /\ Added <= 5
                /\ \A a \in 1..Len(fetched) : fetched[a].pos <= 5
                /\ pc \in {"yt_loop", "yt_sleep"} => idx <= 5 + 1
          /\ Last(invoked) = "podcast" => Added <= 3
    /\ (site = TwentyCandidates /\ pc = "sleep1") =>
          /\ Len(data_store) = 15
          /\ OfType("Web News") = Records

C5_Witness ==
    /\ site = TwentyCandidates
    /\ pc = "sleep1"
    /\ Len(data_store) = 15
    /\ count = 15

(* C6: a web candidate whose href is a relative link yields a record whose *)
(* Link starts with https://www.cnbc.com; an absolute href is unchanged.   *)
IsAbsolute(href) == StartsWith(href, <<"h", "t", "t", "p", ":", "/", "/">>) \/ StartsWith(href, <<"h", "t", "t", "p", "s", ":", "/", "/">>)

IsRelative(href) == href # None /\ href # <<>> /\ ~IsAbsolute(href)

C6_RelativeLinksRewritten ==
    (pc = "web_loop" /\ idx > 1 /\ ~articles[idx - 1].raises) =>
        LET href == Attr(articles[idx - 1], "href")
            link == Last(data_store).Link
        IN  /\ IsRelative(href) => StartsWith(link, <<"h", "t", "t", "p", "s", ":", "/", "/", "w", "w", "w", ".", "c", "n", "b", "c", ".", "c", "o", "m">>)
            /\ (href # None /\ IsAbsolute(href)) => link = href

(* C7: a run in which no adapter contributed a record ends without raising, *)
(* with the warning and without an export; the export step is invoked      *)
(* exactly when the dataset is non-empty after the third adapter.          *)
C7_EmptyRunWarns ==
    /\ (RunOver /\ data_store = <<>>) =>
          /\ pc = "done"
          /\ warned = 1
          /\ exported = <<>>
    /\ pc = "done" => (exported # <<>> <=> data_store # <<>>)
    /\ pc = "done" => (warned = 1 <=> data_store = <<>>)

(* What does hold for C7: a run() that reaches its last statement exports  *)
(* exactly when the dataset is non-empty and warns exactly when it is not. *)
C7_DecisionWhenReached ==
    pc = "done" =>
        /\ exported # <<>> <=> data_store # <<>>
        /\ warned = 1 <=> data_store = <<>>
        /\ exported # <<>> => exported = <<data_store>>

(* C8: a transcript failure for a keyword-matching entry skips only that   *)
(* entry: no record and no delay for it, and every later matching entry    *)
(* among the first 5 is still fetched, and recorded when its transcript is *)
(* available.                                                              *)
Window == 1..Min(5, Len(channel.entries))

FetchedAt(j) == \E a \in 1..Len(fetched) : fetched[a].pos = j

RecordedAt(j) ==
    \E i \in OfType("YouTube Video") : data_store[i].Link = channel.entries[j].link

C8_FailureSkipsOnlyThatEntry ==
    (YoutubeOver /\ channel.kind = "feed") =>
        \A a \in 1..Len(fetched) :
            ~fetched[a].ok =>
                /\ ~RecordedAt(fetched[a].pos)
                /\ \A s \in 1..Len(slept) : slept[s] # fetched[a].pos
                /\ \A j \in Window :
                      (j > fetched[a].pos /\ Eligible(channel.entries[j]))
                          => FetchedAt(j)
                /\ \A b \in 1..Len(fetched) :
                      (b > a /\ fetched[b].ok /\ Complete(channel.entries[fetched[b].pos]))
                          => RecordedAt(fetched[b].pos)

(* What does hold for C8: the failure step appends nothing, takes no delay  *)
(* and moves the loop to the next entry.                                   *)
C8_FailureStepOnlySkips ==
    [][(Len(fetched') = Len(fetched) + 1 /\ ~Last(fetched').ok) =>
          /\ data_store' = data_store
          /\ slept' = slept
          /\ pc' = "yt_loop"
          /\ idx' = idx + 1
          /\ entries' = entries]_vars

(* C9: an invocation of the podcast adapter that ends through its error    *)
(* handler has appended no record: the adapter contributes the full        *)
(* bounded prefix or nothing.                                              *)
C9_PodcastAllOrNothing ==
    pc = "export" =>
        /\ Last(logs) = "Error in Podcast module" => Added = 0
        /\ podcast.kind = "feed" => Added \in {0, Min(3, Len(podcast.entries))}

(* C10: the dataset a run() call exports holds only the records appended   *)
(* during that call.                                                       *)
C10_RunScoped ==
    (pc = "done" /\ Last(logs) = "SUCCESS: Data saved") =>
        Last(exported) = SubSeq(data_store, runBase + 1, Len(data_store))

(* What does hold for C9: a failure of feedparser.parse leaves nothing     *)
(* appended; a failure at entry k leaves the k - 1 records before it.      *)
C9_PrefixBeforeFailure ==
    (pc = "export" /\ Last(logs) = "Error in Podcast module") =>
        /\ podcast.kind = "exception" => Added = 0
        /\ podcast.kind = "feed" => Added = idx - 1 /\ ~Parsable(entries[idx])
====
